---- MODULE Spec2Model ----
(***************************************************************************)
(* The markup rewriting engine of the Discourse -> GitHub migration:       *)
(* DiscourseHTMLParser of src/discourse_download.py, a subclass of         *)
(* html.parser.HTMLParser whose handlers append to output_html and collect *)
(* post_links.                                                             *)
(*                                                                         *)
(* Strings are tuples of atoms ("/" and "@" are always atoms of their own, *)
(* so startswith, in, removeprefix, split and partition are computed on    *)
(* the atoms as Python computes them on the characters).  output_html is a *)
(* tuple of lexemes: text, start tags, end tags, comments, declarations,   *)
(* processing instructions and references, adjacent text merged.           *)
(***************************************************************************)
EXTENDS Integers, Sequences, FiniteSets, TLC

(***************************************************************************)
(* Python values and str operations                                        *)
(***************************************************************************)
\* Python's None, where a str is expected (an attribute without a value)
None == <<"<None>">>

\* str(None), as an f-string formats it
FmtValue(v) == IF v = None THEN <<"None">> ELSE v

\* s.startswith(pre)
StartsWith(s, pre) == Len(s) >= Len(pre) /\ SubSeq(s, 1, Len(pre)) = pre

\* sub in s
Contains(s, sub) ==
  \E i \in 1..(Len(s) - Len(sub) + 1) : SubSeq(s, i, i + Len(sub) - 1) = sub

\* s.removeprefix(pre)
RemovePrefix(s, pre) ==
  IF StartsWith(s, pre) THEN SubSeq(s, Len(pre) + 1, Len(s)) ELSE s

\* the index of the first atom c of s, Len(s) + 1 when there is none
FirstIndex(s, c) ==
  IF \E i \in 1..Len(s) : s[i] = c
    THEN CHOOSE i \in 1..Len(s) : s[i] = c /\ \A j \in 1..(i - 1) : s[j] # c
    ELSE Len(s) + 1

\* s.split(c)[0]
SplitHead(s, c) == SubSeq(s, 1, FirstIndex(s, c) - 1)

\* s.partition(c)[2]
PartitionTail(s, c) == SubSeq(s, FirstIndex(s, c) + 1, Len(s))

\* dict(attrs).get(key, default): the last pair with that key wins
AttrGet(attrs, key, default) ==
  IF \E i \in 1..Len(attrs) : attrs[i][1] = key
    THEN attrs[CHOOSE i \in 1..Len(attrs) :
                 attrs[i][1] = key /\ \A j \in (i + 1)..Len(attrs) : attrs[j][1] # key][2]
    ELSE default

(***************************************************************************)
(* Program constants                                                       *)
(***************************************************************************)
POST_LINK_ID == <<"f4706281-cc60-4ff0-a0b6-b803683cc24b">>

\* "https://discuss.hail.is/t/"
TopicPrefix == <<"https:", "/", "/", "discuss.hail.is", "/", "t", "/">>

\* the fence markers: newline, newline, three backticks, python, newline and
\* newline, three backticks, newline, newline
Backticks == "(three backticks)"
FenceOpen == <<"\n", "\n", Backticks, "python", "\n">>
FenceClose == <<"\n", Backticks, "\n", "\n">>

(***************************************************************************)
(* Lexemes of output_html                                                  *)
(***************************************************************************)
Lex(k, tag, attrs, s) == [k |-> k, tag |-> tag, attrs |-> attrs, s |-> s]
Text(s) == Lex("text", "", <<>>, s)
\* <tag k1="v1" ...suffix>
STag(tag, attrs, suffix) == Lex("start", tag, attrs, suffix)
\* </tag>
ETag(tag) == Lex("end", tag, <<>>, <<>>)
\* <!--s-->, <!s>, <?s>, &s;
Comment(s) == Lex("comment", "", <<>>, s)
Decl(s) == Lex("decl", "", <<>>, s)
Pi(s) == Lex("pi", "", <<>>, s)
Ref(s) == Lex("ref", "", <<>>, s)

\* out += one lexeme; text next to text is one run of text, empty text is nothing
Cat1(out, x) ==
  IF x.k = "text" /\ x.s = <<>> THEN out
  ELSE IF x.k = "text" /\ Len(out) > 0 /\ out[Len(out)].k = "text"
    THEN [out EXCEPT ![Len(out)] = Text(out[Len(out)].s \o x.s)]
  ELSE Append(out, x)

RECURSIVE Cat(_, _)
\* out += xs (out is measured at every step, so that it is computed before the
\* next lexeme is taken and not as one nested expression at the end)
Cat(out, xs) ==
  IF Len(out) >= 0 /\ xs = <<>> THEN out ELSE Cat(Cat1(out, Head(xs)), Tail(xs))

(***************************************************************************)
(* DiscourseHTMLParser                                                     *)
(***************************************************************************)
\* __init__; exc is the exception a handler call raised, "none" if none
NewParser ==
  [output_html |-> <<>>,
   post_links |-> {},
   relative_link |-> FALSE,
   aside |-> FALSE,
   aside_src |-> None,
   aside_src_written |-> FALSE,
   aside_header |-> FALSE,
   aside_header_link |-> FALSE,
   aside_header_link_written |-> FALSE,
   code_block_pre |-> FALSE,
   code_block_code |-> FALSE,
   mention |-> FALSE,
   exc |-> "none"]

\* self.output_html += ...
Write(p, xs) == [p EXCEPT !.output_html = Cat(@, xs)]

\* a raise inside a handler: the call ends there and feed propagates it
Raise(p, e) == [p EXCEPT !.exc = e]

decl_handler(p, decl) == Write(p, <<Decl(decl)>>)

ref_handler(p, name) == Write(p, <<Ref(name)>>)

write_starttag(p, attrs, tag, suffix) ==
  Write(p, <<STag(tag,
                  [i \in 1..Len(attrs) |-> <<attrs[i][1], FmtValue(attrs[i][2])>>],
                  suffix)>>)

\* the slug of a cross-topic link
LinkSlug(link) == SplitHead(RemovePrefix(link, TopicPrefix), "/")

\* the tag == "a" branch, with a cross-topic rule that writes the placeholder and
\* does not register the slug
AnchorStart_slug_not_registered(p, tag, attrs, suffix) ==
  LET p1 == IF p.aside_header /\ ~p.aside_header_link_written
              THEN [p EXCEPT !.aside_header_link = TRUE] ELSE p
      link == AttrGet(attrs, "href", <<>>)
      class == AttrGet(attrs, "class", <<>>)
  IN  IF class = None THEN Raise(p1, "TypeError")
      ELSE IF Contains(class, <<"mention">>) THEN [p1 EXCEPT !.mention = TRUE]
      ELSE IF link = None THEN Raise(p1, "AttributeError")
      ELSE IF StartsWith(link, <<"/">>) THEN [p1 EXCEPT !.relative_link = TRUE]
      ELSE IF Contains(link, TopicPrefix)
        THEN LET slug == LinkSlug(link)
             IN  Write(p1, <<STag("a", <<<<"href", POST_LINK_ID \o <<"/">> \o slug>>>>, <<>>)>>)
      ELSE write_starttag(p1, attrs, tag, suffix)

\* the tag == "a" branch
AnchorStart(p, tag, attrs, suffix) ==
  LET p1 == IF p.aside_header /\ ~p.aside_header_link_written
              THEN [p EXCEPT !.aside_header_link = TRUE] ELSE p
      link == AttrGet(attrs, "href", <<>>)
      class == AttrGet(attrs, "class", <<>>)
  IN  IF class = None THEN Raise(p1, "TypeError")
      ELSE IF Contains(class, <<"mention">>) THEN [p1 EXCEPT !.mention = TRUE]
      ELSE IF link = None THEN Raise(p1, "AttributeError")
      ELSE IF StartsWith(link, <<"/">>) THEN [p1 EXCEPT !.relative_link = TRUE]
      ELSE IF Contains(link, TopicPrefix)
        THEN LET slug == LinkSlug(link)
             IN  Write([p1 EXCEPT !.post_links = @ \cup {slug}],
                       <<STag("a", <<<<"href", POST_LINK_ID \o <<"/">> \o slug>>>>, <<>>)>>)
      ELSE write_starttag(p1, attrs, tag, suffix)

\* the branch taken when not self.aside
OutsideStart(p, tag, attrs, suffix) ==
  IF tag = "aside"
    THEN LET onebox_src == AttrGet(attrs, "data-onebox-src", None)
         IN  IF onebox_src # None
               THEN Write([p EXCEPT !.aside = TRUE, !.aside_src = onebox_src],
                          <<Text(<<"\n">>), STag("a", <<<<"href", onebox_src>>>>, <<>>)>>)
               ELSE [p EXCEPT !.aside = TRUE]
  ELSE IF tag = "pre" THEN [p EXCEPT !.code_block_pre = TRUE]
  ELSE IF p.code_block_pre
    THEN IF tag = "code"
           THEN [Write(p, <<Text(FenceOpen)>>) EXCEPT !.code_block_code = TRUE]
           ELSE p
  ELSE write_starttag(p, attrs, tag, suffix)

\* inner, were the anchor rules applied whatever the aside context
starttag_handler_anchor_everywhere(p, tag, attrs, suffix) ==
  IF tag = "a" THEN AnchorStart(p, tag, attrs, suffix)
  ELSE IF p.aside /\ p.aside_src = None /\ tag # "header" /\ tag = "div"
          /\ AttrGet(attrs, "class", <<>>) = None
    THEN Raise(p, "TypeError")
  ELSE IF p.aside /\ p.aside_src = None
          /\ (tag = "header"
              \/ (tag = "div" /\ Contains(AttrGet(attrs, "class", <<>>), <<"title">>)))
    THEN Write([p EXCEPT !.aside_header = TRUE], <<Text(<<"\n">>)>>)
  ELSE IF p.aside_header /\ tag = "blockquote"
    THEN write_starttag([p EXCEPT !.aside = FALSE, !.aside_header = FALSE,
                                  !.aside_header_link_written = FALSE],
                        attrs, tag, suffix)
  ELSE IF p.aside_header /\ tag = "article"
    THEN [p EXCEPT !.aside_header = FALSE, !.aside_header_link_written = FALSE]
  ELSE IF ~p.aside THEN OutsideStart(p, tag, attrs, suffix)
  ELSE p

\* inner of _starttag_handler(suffix)
starttag_handler(p, tag, attrs, suffix) ==
  IF (~p.aside \/ p.aside_header) /\ tag = "a" THEN AnchorStart(p, tag, attrs, suffix)
  ELSE IF p.aside /\ p.aside_src = None /\ tag # "header" /\ tag = "div"
          /\ AttrGet(attrs, "class", <<>>) = None
    THEN Raise(p, "TypeError")
  ELSE IF p.aside /\ p.aside_src = None
          /\ (tag = "header"
              \/ (tag = "div" /\ Contains(AttrGet(attrs, "class", <<>>), <<"title">>)))
    THEN Write([p EXCEPT !.aside_header = TRUE], <<Text(<<"\n">>)>>)
  ELSE IF p.aside_header /\ tag = "blockquote"
    THEN write_starttag([p EXCEPT !.aside = FALSE, !.aside_header = FALSE,
                                  !.aside_header_link_written = FALSE],
                        attrs, tag, suffix)
  ELSE IF p.aside_header /\ tag = "article"
    THEN [p EXCEPT !.aside_header = FALSE, !.aside_header_link_written = FALSE]
  ELSE IF ~p.aside THEN OutsideStart(p, tag, attrs, suffix)
  ELSE p

handle_starttag(p, tag, attrs) == starttag_handler(p, tag, attrs, <<>>)

handle_startendtag(p, tag, attrs) == starttag_handler(p, tag, attrs, <<" /">>)

\* handle_comment, were comments dropped inside an aside like text
handle_comment_dropped_in_aside(p, data) ==
  IF p.aside THEN p ELSE Write(p, <<Comment(data)>>)

handle_comment(p, data) == Write(p, <<Comment(data)>>)

\* handle_data, were the source URL written for every text of a link preview (no
\* aside_src_written test)
handle_data_url_every_text(p, data) ==
  IF p.mention THEN Write(p, <<Text(PartitionTail(data, "@"))>>)
  ELSE IF p.aside_src # None THEN Write(p, <<Text(p.aside_src)>>)
  ELSE IF ~p.aside \/ p.aside_header_link THEN Write(p, <<Text(data)>>)
  ELSE p

\* handle_data, were the text of a mention kept from its "@" on (partition index
\* 1 onwards instead of 2)
handle_data_keeps_at(p, data) ==
  IF p.mention THEN Write(p, <<Text(SubSeq(data, FirstIndex(data, "@"), Len(data)))>>)
  ELSE IF p.aside_src # None /\ ~p.aside_src_written
    THEN [Write(p, <<Text(p.aside_src)>>) EXCEPT !.aside_src_written = TRUE]
  ELSE IF ~p.aside \/ p.aside_header_link THEN Write(p, <<Text(data)>>)
  ELSE p

handle_data(p, data) ==
  IF p.mention THEN Write(p, <<Text(PartitionTail(data, "@"))>>)
  ELSE IF p.aside_src # None /\ ~p.aside_src_written
    THEN [Write(p, <<Text(p.aside_src)>>) EXCEPT !.aside_src_written = TRUE]
  ELSE IF ~p.aside \/ p.aside_header_link THEN Write(p, <<Text(data)>>)
  ELSE p

\* handle_endtag, were the end tag of a relative link written like any other
\* anchor's
handle_endtag_writes_relative(p, tag) ==
  IF (~p.aside \/ p.aside_header) /\ tag = "a"
    THEN IF p.mention THEN [p EXCEPT !.mention = FALSE]
         ELSE Write(IF p.aside_header_link
                      THEN [p EXCEPT !.aside_header_link = FALSE,
                                     !.aside_header_link_written = TRUE,
                                     !.relative_link = FALSE]
                      ELSE [p EXCEPT !.relative_link = FALSE],
                    <<ETag("a")>>)
  ELSE IF tag = "aside"
    THEN IF p.aside_src # None
           THEN [Write(p, <<ETag("a"), Text(<<"\n">>)>>)
                   EXCEPT !.aside = FALSE, !.aside_src = None,
                          !.aside_src_written = FALSE,
                          !.aside_header_link_written = TRUE]
           ELSE [p EXCEPT !.aside = FALSE]
  ELSE IF ~p.aside
    THEN IF tag = "pre" THEN [p EXCEPT !.code_block_pre = FALSE]
         ELSE IF p.code_block_pre
           THEN IF tag = "code"
                  THEN [Write(p, <<Text(FenceClose)>>) EXCEPT !.code_block_code = FALSE]
                  ELSE p
         ELSE Write(p, <<ETag(tag)>>)
  ELSE p

handle_endtag(p, tag) ==
  IF (~p.aside \/ p.aside_header) /\ tag = "a"
    THEN IF p.mention THEN [p EXCEPT !.mention = FALSE]
         ELSE IF p.relative_link THEN [p EXCEPT !.relative_link = FALSE]
         ELSE Write(IF p.aside_header_link
                      THEN [p EXCEPT !.aside_header_link = FALSE,
                                     !.aside_header_link_written = TRUE]
                      ELSE p,
                    <<ETag("a")>>)
  ELSE IF tag = "aside"
    THEN IF p.aside_src # None
           THEN [Write(p, <<ETag("a"), Text(<<"\n">>)>>)
                   EXCEPT !.aside = FALSE, !.aside_src = None,
                          !.aside_src_written = FALSE,
                          !.aside_header_link_written = TRUE]
           ELSE [p EXCEPT !.aside = FALSE]
  ELSE IF ~p.aside
    THEN IF tag = "pre" THEN [p EXCEPT !.code_block_pre = FALSE]
         ELSE IF p.code_block_pre
           THEN IF tag = "code"
                  THEN [Write(p, <<Text(FenceClose)>>) EXCEPT !.code_block_code = FALSE]
                  ELSE p
         ELSE Write(p, <<ETag(tag)>>)
  ELSE p

handle_pi(p, data) == Write(p, <<Pi(data)>>)

(***************************************************************************)
(* The events the tokenizer delivers to the handlers                       *)
(***************************************************************************)
HrefUser == <<"/", "u", "/", "foo">>
HrefRelative == <<"/", "t", "/", "123-slug">>
HrefTopic == TopicPrefix \o <<"my-topic", "/", "45">>
HrefEmbedded == <<"http:", "/", "/", "x.org", "/", "?u=">> \o TopicPrefix \o <<"foo", "/", "1">>
HrefOther == <<"http:", "/", "/", "x.org">>
OneboxSrc == <<"http:", "/", "/", "example.com">>

AnchorAttrs ==
  { <<>>,
    << <<"class", <<"mention">>>>, <<"href", HrefUser>> >>,
    << <<"href", HrefRelative>> >>,
    << <<"class", <<"inline-onebox">>>>, <<"href", HrefTopic>> >>,
    << <<"href", HrefEmbedded>> >>,
    << <<"href", HrefOther>> >>,
    << <<"class", None>> >>,
    << <<"href", None>> >> }

AsideAttrs ==
  { << <<"class", <<"quote">>>> >>,
    << <<"class", <<"onebox">>>>, <<"data-onebox-src", OneboxSrc>> >>,
    << <<"class", <<"onebox">>>>, <<"data-onebox-src", HrefTopic>> >>,
    << <<"data-onebox-src", None>> >> }

DivAttrs ==
  { << <<"class", <<"title">>>> >>, << <<"class", None>> >> }

\* tag, attrs as handle_starttag receives them
StartInputs ==
  ({"a"} \X AnchorAttrs) \cup ({"aside"} \X AsideAttrs) \cup ({"div"} \X DivAttrs)
  \cup ({"header", "blockquote", "article", "pre", "code"} \X {<<>>})
  \cup {<<"input", << <<"disabled", None>> >> >>}

\* tag, attrs as handle_startendtag receives them
StartendInputs ==
  { <<"br", <<>>>>,
    <<"a", << <<"href", HrefOther>> >> >>,
    <<"a", << <<"href", None>> >> >>,
    <<"aside", << <<"data-onebox-src", OneboxSrc>> >> >>,
    <<"code", <<>>>> }

EndInputs == {"a", "aside", "div", "blockquote", "pre", "code"}

DataInputs == { <<"@", "foo">>, <<"click", " ", "here">>, <<"a", "@", "b", "@", "c">> }

Event(type, tag, attrs, data) == [type |-> type, tag |-> tag, attrs |-> attrs, data |-> data]
NoEvent == Event("none", "", <<>>, <<>>)

\* the handler HTMLParser calls for an event
Handle(p, e) ==
  CASE e.type = "start" -> handle_starttag(p, e.tag, e.attrs)
    [] e.type = "startend" -> handle_startendtag(p, e.tag, e.attrs)
    [] e.type = "end" -> handle_endtag(p, e.tag)
    [] e.type = "data" -> handle_data(p, e.data)
    [] e.type = "comment" -> handle_comment(p, e.data)
    [] e.type = "decl" -> decl_handler(p, e.data)
    [] e.type = "ref" -> ref_handler(p, e.data)
    [] e.type = "pi" -> handle_pi(p, e.data)

\* output_html of a parser of the state holds what the last handler call appended:
\* the sink is append-only and no handler reads it
Fed(p) == [p EXCEPT !.output_html = <<>>]

\* the context flags of a parser
Flags(p) == [Fed(p) EXCEPT !.post_links = {}]

(***************************************************************************)
(* Observers: where in the document the parser is                          *)
(***************************************************************************)
IsTag(e, types, tag) == e.type \in types /\ e.tag = tag

\* an aside start tag has been delivered and no aside end tag since
InAsideNext(in, e) ==
  IF IsTag(e, {"start", "startend"}, "aside") THEN TRUE
  ELSE IF IsTag(e, {"end"}, "aside") THEN FALSE
  ELSE in

\* The anchor an `a` start tag opens in state p, as the rules name it: "mention"
\* and "relative" outside any aside, "cross" (href = prefix + slug + "/" + rest)
\* with aside, mention and relative_link false; "none" otherwise
AnchorKind(p, in, e) ==
  LET class == AttrGet(e.attrs, "class", <<>>)
      link == AttrGet(e.attrs, "href", <<>>)
  IN  IF class = None THEN "none"
      ELSE IF Contains(class, <<"mention">>) THEN (IF ~in THEN "mention" ELSE "none")
      ELSE IF link = None THEN "none"
      ELSE IF StartsWith(link, <<"/">>)
        THEN (IF ~in /\ ~p.mention THEN "relative" ELSE "none")
      ELSE IF StartsWith(link, TopicPrefix)
              /\ Contains(RemovePrefix(link, TopicPrefix), <<"/">>)
        THEN (IF ~p.aside /\ ~p.mention /\ ~p.relative_link THEN "cross" ELSE "none")
      ELSE "none"

Run(kind, stage) == [kind |-> kind, stage |-> stage]
NoRun == Run("none", "")

\* The run of events the parser is in: an anchor run is StartTag(a), Text*,
\* EndTag(a); a fence run is StartTag(pre), StartTag(code), Text, EndTag(code),
\* EndTag(pre), begun with aside and mention false
RunNext(r, p, in, e) ==
  IF IsTag(e, {"start"}, "a")
    THEN (IF AnchorKind(p, in, e) = "none" THEN NoRun
          ELSE Run(AnchorKind(p, in, e), "start"))
  ELSE IF IsTag(e, {"start"}, "pre") /\ ~p.aside /\ ~p.mention THEN Run("fence", "pre")
  ELSE IF r.kind = "fence"
    THEN (IF r.stage = "pre" /\ IsTag(e, {"start"}, "code") THEN Run("fence", "code")
          ELSE IF r.stage = "code" /\ e.type = "data" THEN Run("fence", "text")
          ELSE IF r.stage = "text" /\ IsTag(e, {"end"}, "code") THEN Run("fence", "endcode")
          ELSE IF r.stage = "endcode" /\ IsTag(e, {"end"}, "pre") THEN Run("fence", "endpre")
          ELSE NoRun)
  ELSE IF r.kind \in {"mention", "relative", "cross"} /\ r.stage \in {"start", "text"}
    THEN (IF e.type = "data" THEN Run(r.kind, "text")
          ELSE IF IsTag(e, {"end"}, "a") THEN Run(r.kind, "end")
          ELSE NoRun)
  ELSE NoRun

\* The document so far, while it is one link-preview aside: <aside
\* data-onebox-src=U> delivered to the fresh parser, then start, self-closing and
\* end tags other than aside and text events, then </aside>.  out is the
\* output_html of the whole document.
Preview(stage, src, texts, tags, out) ==
  [stage |-> stage, src |-> src, texts |-> texts, tags |-> tags, out |-> out]
NoPreview(stage) == Preview(stage, None, "none", FALSE, <<>>)

PreviewNext(v, e, p) ==
  IF p.exc # "none" THEN NoPreview("off")
  ELSE IF v.stage = "fresh"
    THEN (IF IsTag(e, {"start"}, "aside") /\ AttrGet(e.attrs, "data-onebox-src", None) # None
            THEN Preview("open", AttrGet(e.attrs, "data-onebox-src", None), "none", FALSE,
                         p.output_html)
            ELSE NoPreview("off"))
  ELSE IF v.stage = "open"
    THEN (IF IsTag(e, {"end"}, "aside")
            THEN [v EXCEPT !.stage = "closed", !.out = Cat(@, p.output_html)]
          ELSE IF e.type \in {"start", "startend", "end"} /\ e.tag # "aside"
            THEN [v EXCEPT !.tags = TRUE, !.out = Cat(@, p.output_html)]
          ELSE IF e.type = "data"
            THEN [v EXCEPT !.texts = IF @ = "none" THEN "one" ELSE "many",
                           !.out = Cat(@, p.output_html)]
          ELSE NoPreview("off"))
  ELSE NoPreview("off")

\* The document so far, while it is a sequence of aside blocks and nothing else:
\* each block an aside start tag (a quote, or a link preview with
\* data-onebox-src), properly nested elements and text, and the aside end tag.
\* done counts the blocks closed (two at most), open is the stack of the
\* elements open inside the current block.
Blocks(stage, done, open) == [stage |-> stage, done |-> done, open |-> open]
NoBlocks == Blocks("off", 0, <<>>)

\* tags that have no end tag
VoidTags == {"input", "br"}

\* no block holds elements nested deeper than this
MaxNest == 3

BlocksNext(b, e) ==
  IF b.stage = "between"
    THEN (IF IsTag(e, {"start"}, "aside") /\ AttrGet(e.attrs, "data-onebox-src", <<>>) # None
               /\ b.done < 2
            THEN Blocks("in", b.done, <<>>)
            ELSE NoBlocks)
  ELSE IF b.stage = "in"
    THEN (IF e.type = "end" /\ b.open # <<>>
            THEN (IF e.tag = b.open[Len(b.open)]
                    THEN [b EXCEPT !.open = SubSeq(@, 1, Len(@) - 1)]
                    ELSE NoBlocks)
          ELSE IF IsTag(e, {"end"}, "aside") THEN Blocks("between", b.done + 1, <<>>)
          ELSE IF e.type = "end" \/ e.tag = "aside" THEN NoBlocks
          ELSE IF e.type = "start" /\ e.tag \notin VoidTags
            THEN (IF Len(b.open) < MaxNest THEN [b EXCEPT !.open = Append(@, e.tag)]
                  ELSE NoBlocks)
          ELSE b)
  ELSE NoBlocks

(***************************************************************************)
(* HTMLParser.feed, as DiscourseHTMLParser inherits it                     *)
(***************************************************************************)
\* html.unescape on one atom: one level of entity decoding
UnescapeAtom(c) ==
  CASE c = "&amp;amp;" -> "&amp;"
    [] c = "&amp;" -> "&"
    [] OTHER -> c

\* html.unescape
Unescape(s) == [i \in 1..Len(s) |-> UnescapeAtom(s[i])]

\* atoms that hold white space or ";"
BreakAtoms == {" ", "\n", "&amp;", "&amp;amp;"}

\* Text at the end of the buffer is kept back while its last "&" is followed by
\* neither white space nor ";": it may be the start of a reference (and main
\* never calls close)
KeptBack(s) ==
  \E i \in 1..Len(s) : s[i] = "&" /\ \A j \in (i + 1)..Len(s) : s[j] \notin BreakAtoms

\* the event of one lexeme of the buffer: convert_charrefs is left True, so text
\* and attribute values are unescaped and references are part of the text
LexemeEvent(x) ==
  CASE x.k = "text" -> Event("data", "", <<>>, Unescape(x.s))
    [] x.k = "ref" -> Event("data", "", <<>>, Unescape(<<"&">> \o x.s \o <<";">>))
    [] x.k = "start" ->
         Event(IF x.s = <<>> THEN "start" ELSE "startend", x.tag,
               [i \in 1..Len(x.attrs) |->
                  <<x.attrs[i][1],
                    IF x.attrs[i][2] = None THEN None ELSE Unescape(x.attrs[i][2])>>],
               <<>>)
    [] x.k = "end" -> Event("end", x.tag, <<>>, <<>>)
    [] x.k = "comment" -> Event("comment", "", <<>>, x.s)
    [] x.k = "decl" -> Event("decl", "", <<>>, x.s)
    [] x.k = "pi" -> Event("pi", "", <<>>, x.s)

\* the events feed delivers for a buffer
Tokenize(buf) ==
  LET n == IF Len(buf) > 0 /\ buf[Len(buf)].k = "text" /\ KeptBack(buf[Len(buf)].s)
             THEN Len(buf) - 1 ELSE Len(buf)
  IN  [i \in 1..n |-> LexemeEvent(buf[i])]

RECURSIVE FeedEvents(_, _)
\* the handler calls of feed, up to the first that raises
FeedEvents(p, es) ==
  IF es = <<>> \/ p.exc # "none" THEN p ELSE FeedEvents(Handle(p, Head(es)), Tail(es))

\* parser = DiscourseHTMLParser(); parser.feed(html)
Feed(buf) == FeedEvents(NewParser, Tokenize(buf))

\* the lexemes the posts are made of
PostLexemes ==
  { Text(<<"x">>), Text(<<"&amp;amp;">>), Text(<<"@", "foo">>), Comment(<<"c">>),
    STag("a", << <<"class", <<"mention">>>>, <<"href", HrefUser>> >>, <<>>),
    STag("a", << <<"href", HrefTopic>> >>, <<>>),
    STag("a", << <<"href", HrefOther>> >>, <<>>),
    STag("aside", << <<"data-onebox-src", OneboxSrc>> >>, <<>>),
    STag("aside", << <<"class", <<"quote">>>> >>, <<>>),
    STag("div", << <<"class", <<"title">>>> >>, <<>>),
    STag("input", << <<"disabled", None>> >>, <<>>),
    STag("br", <<>>, <<" /">>),
    STag("blockquote", <<>>, <<>>), STag("pre", <<>>, <<>>), STag("code", <<>>, <<>>),
    ETag("a"), ETag("aside"), ETag("code"), ETag("pre") }

\* a post holds at most this many lexemes
MaxPost == 3

\* the html of the posts
Posts ==
  { Cat(<<>>, xs) : xs \in UNION { [1..n -> PostLexemes] : n \in 0..MaxPost } }

(***************************************************************************)
(* DiscourseHTMLParser of discourse_migration.py                           *)
(***************************************************************************)
\* key in dict(attrs)
AttrHas(attrs, key) == \E i \in 1..Len(attrs) : attrs[i][1] = key

\* __init__ of the migration parser
NewMigrationParser ==
  [output_html |-> <<>>,
   post_links |-> {},
   relative_link |-> FALSE,
   link_preview |-> FALSE,
   link_preview_url |-> None,
   code_block_pre |-> FALSE,
   code_block_code |-> FALSE,
   mention |-> FALSE,
   exc |-> "none"]

\* the tag == "a" branch: an anchor that is no mention, relative link or
\* cross-topic link writes nothing
migration_AnchorStart(p, attrs) ==
  LET link == AttrGet(attrs, "href", <<>>)
      class == AttrGet(attrs, "class", <<>>)
  IN  IF class = None THEN Raise(p, "TypeError")
      ELSE IF Contains(class, <<"mention">>) THEN [p EXCEPT !.mention = TRUE]
      ELSE IF link = None THEN Raise(p, "AttributeError")
      ELSE IF StartsWith(link, <<"/">>) THEN [p EXCEPT !.relative_link = TRUE]
      ELSE IF Contains(link, TopicPrefix)
        THEN LET slug == LinkSlug(link)
             IN  Write([p EXCEPT !.post_links = @ \cup {slug}],
                       <<STag("a", <<<<"href", POST_LINK_ID \o <<"/">> \o slug>>>>, <<>>)>>)
      ELSE p

\* inner of _starttag_handler(suffix) of the migration parser
migration_starttag_handler(p, tag, attrs, suffix) ==
  IF tag = "a" THEN migration_AnchorStart(p, attrs)
  ELSE IF tag = "aside" /\ AttrGet(attrs, "class", <<>>) = None THEN Raise(p, "TypeError")
  ELSE IF tag = "aside" /\ Contains(AttrGet(attrs, "class", <<>>), <<"onebox">>)
          /\ AttrHas(attrs, "data_onebox_source")
    THEN LET url == AttrGet(attrs, "data_onebox_source", None)
         IN  [Write(p, <<Text(<<"\n">>), STag("a", <<<<"href", FmtValue(url)>>>>, <<>>)>>)
                EXCEPT !.link_preview_url = url, !.link_preview = TRUE]
  ELSE IF tag = "pre" THEN [p EXCEPT !.code_block_pre = TRUE]
  ELSE IF p.code_block_pre
    THEN IF tag = "code"
           THEN [Write(p, <<Text(FenceOpen)>>) EXCEPT !.code_block_code = TRUE]
           ELSE p
  ELSE write_starttag(p, attrs, tag, suffix)

migration_handle_starttag(p, tag, attrs) == migration_starttag_handler(p, tag, attrs, <<>>)

migration_handle_startendtag(p, tag, attrs) ==
  migration_starttag_handler(p, tag, attrs, <<" /">>)

migration_handle_data(p, data) ==
  IF p.link_preview THEN Write(p, <<Text(FmtValue(p.link_preview_url))>>)
  ELSE IF p.mention THEN Write(p, <<Text(PartitionTail(data, "@"))>>)
  ELSE Write(p, <<Text(data)>>)

migration_handle_endtag(p, tag) ==
  IF tag = "a"
    THEN IF p.mention THEN [p EXCEPT !.mention = FALSE]
         ELSE IF p.relative_link THEN [p EXCEPT !.relative_link = FALSE]
         ELSE p
  ELSE IF tag = "aside" /\ p.link_preview
    THEN [Write(p, <<ETag("a"), Text(<<"\n">>)>>)
            EXCEPT !.link_preview = FALSE, !.link_preview_url = None]
  ELSE IF tag = "pre" THEN [p EXCEPT !.code_block_pre = FALSE]
  ELSE IF p.code_block_pre
    THEN IF tag = "code"
           THEN [Write(p, <<Text(FenceClose)>>) EXCEPT !.code_block_code = FALSE]
           ELSE p
  ELSE Write(p, <<ETag(tag)>>)

\* the handler HTMLParser calls for an event, on the migration parser
MigrationHandle(p, e) ==
  CASE e.type = "start" -> migration_handle_starttag(p, e.tag, e.attrs)
    [] e.type = "startend" -> migration_handle_startendtag(p, e.tag, e.attrs)
    [] e.type = "end" -> migration_handle_endtag(p, e.tag)
    [] e.type = "data" -> migration_handle_data(p, e.data)
    [] e.type = "comment" -> handle_comment(p, e.data)
    [] e.type = "decl" -> decl_handler(p, e.data)
    [] e.type = "ref" -> ref_handler(p, e.data)
    [] e.type = "pi" -> handle_pi(p, e.data)

\* tag, attrs as the start-tag handlers of the migration parser receive them
MigrationStartInputs ==
  { <<"a", << <<"class", <<"mention">>>>, <<"href", HrefUser>> >> >>,
    <<"a", << <<"href", HrefRelative>> >> >>,
    <<"a", << <<"href", HrefTopic>> >> >>,
    <<"a", << <<"href", HrefOther>> >> >>,
    <<"aside", << <<"class", <<"onebox">>>>, <<"data_onebox_source", OneboxSrc>> >> >>,
    <<"aside", << <<"class", <<"quote">>>> >> >>,
    <<"b", <<>>>> }

MigrationStartendInputs == { <<"br", <<>>>> }

MigrationEndInputs == {"a", "aside", "b"}

MigrationDataInputs == { <<"See", " ", "thread">>, <<"@", "foo">> }

\* a document holds at most this many events
MaxEvents == 4

(***************************************************************************)
(* Observers of the quote header and of the markers written                *)
(***************************************************************************)
Header(stage, kind) == [stage |-> stage, kind |-> kind]
NoHeader == Header("off", "none")

\* the parser is in the header of a quote aside and no header anchor was seen
HeaderOpen(p) ==
  /\ p.aside /\ p.aside_header /\ p.aside_src = None
  /\ ~p.aside_header_link /\ ~p.aside_header_link_written
  /\ ~p.mention /\ ~p.relative_link

\* the events that end the header element or the aside
EndsHeader(e) ==
  \/ e.type \in {"start", "startend"} /\ e.tag \in {"blockquote", "article", "aside", "div", "header"}
  \/ e.type = "end" /\ e.tag \in {"aside", "div", "header", "blockquote"}

\* the anchor rule the attributes of an `a` start tag select
HeaderAnchorKind(e) ==
  LET class == AttrGet(e.attrs, "class", <<>>)
      link == AttrGet(e.attrs, "href", <<>>)
  IN  IF Contains(class, <<"mention">>) THEN "mention"
      ELSE IF StartsWith(link, <<"/">>) THEN "relative"
      ELSE IF Contains(link, TopicPrefix) THEN "cross"
      ELSE "other"

\* stage "first": inside the first anchor of the header (kind: the rule its start
\* tag took); stage "after": the end tag of that anchor has been handled and the
\* header is still open
HeaderNext(h, p, e, p2) ==
  IF p2.exc # "none" THEN NoHeader
  ELSE IF h.stage = "first"
    THEN (IF e.type = "data" THEN h
          ELSE IF IsTag(e, {"end"}, "a") THEN Header("after", h.kind)
          ELSE NoHeader)
  ELSE IF h.stage = "after" THEN (IF EndsHeader(e) THEN NoHeader ELSE h)
  ELSE IF HeaderOpen(p) /\ IsTag(e, {"start"}, "a")
    THEN Header("first", HeaderAnchorKind(e))
  ELSE NoHeader

\* how many fence-open and fence-close markers and preview anchor opens and
\* closes have been written; in_code: every fence-close so far was written by a
\* code end tag handled with code_block_code true, leaving code_block_pre true
Marks(fo, fc, po, pc, in_code) ==
  [fence_open |-> fo, fence_close |-> fc, preview_open |-> po, preview_close |-> pc,
   in_code |-> in_code]
NoMarks == Marks(0, 0, 0, 0, TRUE)

WritesFenceOpen(e, p2) == e.type \in {"start", "startend"} /\ p2.output_html = <<Text(FenceOpen)>>
WritesFenceClose(e, p2) == e.type = "end" /\ p2.output_html = <<Text(FenceClose)>>
WritesPreviewOpen(e, p2) ==
  /\ IsTag(e, {"start", "startend"}, "aside")
  /\ Len(p2.output_html) = 2 /\ p2.output_html[1] = Text(<<"\n">>)
  /\ p2.output_html[2].k = "start" /\ p2.output_html[2].tag = "a"
WritesPreviewClose(e, p2) ==
  IsTag(e, {"end"}, "aside") /\ p2.output_html = <<ETag("a"), Text(<<"\n">>)>>

MarksNext(m, p, e, p2) ==
  Marks(m.fence_open + (IF WritesFenceOpen(e, p2) THEN 1 ELSE 0),
        m.fence_close + (IF WritesFenceClose(e, p2) THEN 1 ELSE 0),
        m.preview_open + (IF WritesPreviewOpen(e, p2) THEN 1 ELSE 0),
        m.preview_close + (IF WritesPreviewClose(e, p2) THEN 1 ELSE 0),
        m.in_code /\ (WritesFenceClose(e, p2)
                        => /\ IsTag(e, {"end"}, "code")
                           /\ p.code_block_code
                           /\ p2.code_block_pre /\ ~p2.code_block_code))

\* no more markers of one kind than this are counted
MaxMarkers == 2

\* tag, attrs of the start tags of documents of asides, headers and code blocks
ContextStartInputs ==
  { <<"aside", << <<"class", <<"quote">>>> >> >>,
    <<"aside", << <<"class", <<"onebox">>>>, <<"data-onebox-src", OneboxSrc>> >> >>,
    <<"div", << <<"class", <<"title">>>> >> >>,
    <<"a", << <<"class", <<"mention">>>>, <<"href", HrefUser>> >> >>,
    <<"a", << <<"href", HrefRelative>> >> >>,
    <<"a", << <<"href", HrefTopic>> >> >>,
    <<"a", << <<"href", HrefOther>> >> >>,
    <<"blockquote", <<>>>>, <<"pre", <<>>>>, <<"code", <<>>>> }

ContextEndInputs == {"a", "aside", "div", "blockquote", "pre", "code"}

(***************************************************************************)
(* run_tasks (the same in both files, but for the length of the sleep)     *)
(***************************************************************************)
\* while more than this many tasks are left, a batch of BatchSize is gathered
BatchLimit == 5
BatchSize == 4

\* the pause after a batch, in milliseconds: sleep(2) and sleep(1/2)
DownloadSleepMs == 2000
MigrationSleepMs == 500
SleepMs(f) == IF f = "discourse_download.py" THEN DownloadSleepMs ELSE MigrationSleepMs

\* gather(*tasks): every task left is started at once
BatchEverything(ts) == ts

\* the awaitables handed to gather: tasks[:4] or tasks
Batch(ts) == IF Len(ts) > BatchLimit THEN SubSeq(ts, 1, BatchSize) ELSE ts

\* tasks = tasks[5:]: one task is skipped at every batch boundary
RestSkipsOne(ts) ==
  IF Len(ts) > BatchLimit THEN SubSeq(ts, BatchSize + 2, Len(ts)) ELSE <<>>

\* tasks = tasks[4:] or tasks = []
Rest(ts) == IF Len(ts) > BatchLimit THEN SubSeq(ts, BatchSize + 1, Len(ts)) ELSE <<>>

\* a task list holds at most this many tasks
MaxTasks == 9

(***************************************************************************)
(* main of discourse_download.py, from the fetch of the posts on           *)
(***************************************************************************)
\* the topics of the forum: topic["id"], topic["slug"], topic["post_stream"]["posts"]
TopicIds == {1, 2, 3}
Slug(t) == IF t = 3 THEN "welcome-to-the-hail-community" ELSE IF t = 1 THEN "first" ELSE "second"
PostStream(t) == IF t = 1 THEN <<11, 12, 13>> ELSE IF t = 2 THEN <<21, 22>> ELSE <<31>>

\* response_json["cooked"] of a post
Cooked(id) ==
  IF id = 11 THEN <<Text(<<"x">>)>>
  ELSE IF id = 12
    THEN <<STag("a", << <<"class", <<"mention">>>>, <<"href", HrefUser>> >>, <<>>),
           Text(<<"@", "foo">>), ETag("a")>>
  ELSE IF id = 13
    THEN <<STag("a", << <<"href", HrefTopic>> >>, <<>>), Text(<<"See", " ", "thread">>), ETag("a")>>
  ELSE IF id = 21 THEN <<STag("b", <<>>, <<>>), Text(<<"y">>), ETag("b")>>
  ELSE IF id = 22 THEN <<STag("a", << <<"class", None>> >>, <<>>), Text(<<"z">>)>>
  ELSE <<Text(<<"hello">>)>>

\* parse_post: the DiscoursePost of a post id
DiscoursePost(id) ==
  [id |-> id, topic_id |-> id \div 10,
   username |-> IF id % 2 = 1 THEN "ann" ELSE "bob", html |-> Cooked(id)]

RECURSIVE PostTasks(_)
\* [parse_post(post["id"], session) for topic in topics for post in topic["post_stream"]["posts"]]
PostTasks(topics) ==
  IF topics = <<>> THEN <<>> ELSE PostStream(Head(topics)) \o PostTasks(Tail(topics))

\* the keys of {topic["id"]: ... for topic in topics}, in the order of the dict
DictKeys(topics) ==
  SelectSeq([i \in 1..Len(topics) |->
               IF \E j \in 1..(i - 1) : topics[j] = topics[i] THEN 0 ELSE topics[i]],
            LAMBDA k : k # 0)

\* topic_acc after the loop over posts: for each key, the posts appended to it
TopicAcc(topics, posts) ==
  [i \in 1..Len(DictKeys(topics)) |->
     [id |-> DictKeys(topics)[i],
      posts |-> SelectSeq(posts, LAMBDA post : post.topic_id = DictKeys(topics)[i])]]

\* f"<h2>{post.username} said:</h2>\n{parser.output_html}\n\n"
PostBlock(username, output) ==
  Cat(<<STag("h2", <<>>, <<>>), Text(<<username, " said:">>), ETag("h2"), Text(<<"\n">>)>>,
      output \o <<Text(<<"\n", "\n">>)>>)

RECURSIVE TopicHtml(_, _)
\* the loop over topic["posts"]: topic_html after it
TopicHtml(acc, posts) ==
  IF Len(acc) >= 0 /\ posts = <<>> THEN acc
  ELSE TopicHtml(Cat(acc, PostBlock(Head(posts).username, Feed(Head(posts).html).output_html)),
                 Tail(posts))

\* a parser of the loop raises
FeedRaises(posts) == \E i \in 1..Len(posts) : Feed(posts[i].html).exc # "none"

\* the listing of the pages names at most this many topics
MaxTopics == 3

(***************************************************************************)
(* The state                                                               *)
(***************************************************************************)
\* parser: the DiscourseHTMLParser of one post; ev: the event last delivered;
\* inAside, run, preview, blocks: the observers above; fresh: a second, fresh
\* DiscourseHTMLParser that is fed the current aside block alone.
\* html: the html of a post; first: the parser fed html; second: the parser
\* fed first.output_html; phase: how far that has got.
VARIABLES parser, ev, inAside, run, preview, blocks, fresh, html, first, second, phase

\* header, marks: the observers of the quote header and of the markers written.
VARIABLES header, marks

\* mig: the DiscourseHTMLParser of discourse_migration.py, with its whole output
\* (in SpecLinks with what the last handler call appended, as parser);
\* mev: the event last delivered to it; mstep: what that event appended; mdoc: the
\* events delivered so far.
VARIABLES mig, mev, mstep, mdoc

\* run_tasks: file is the file it is of, mayRaise whether its tasks may raise,
\* input the list it was called with; tasks and result are its locals, batch the
\* awaitables of the gather being awaited, pending those of them still running,
\* pc its position; runs counts the starts of each task, slept is the length of the
\* sleep since the last batch (0: none), started whether a batch was started.
VARIABLES file, mayRaise, input, tasks, result, batch, pending, pc, runs, slept, started

\* main: listing is the topic ids of the pages, in order, queue the post fetches
\* still to run, posts the fetched posts, topic_acc the posts of each topic,
\* exported the files written, mainpc its position.
VARIABLES listing, queue, posts, topic_acc, exported, mainpc

handlerVars == <<parser, ev, inAside, run, preview, blocks, fresh>>
feedVars == <<html, first, second, phase>>
contextVars == <<header, marks>>
migrationVars == <<mig, mev, mstep, mdoc>>
taskVars == <<file, mayRaise, input, tasks, result, batch, pending, pc, runs, slept, started>>
mainVars == <<listing, queue, posts, topic_acc, exported, mainpc>>
vars == <<parser, ev, inAside, run, preview, blocks, fresh, html, first, second, phase,
          header, marks, mig, mev, mstep, mdoc,
          file, mayRaise, input, tasks, result, batch, pending, pc, runs, slept, started,
          listing, queue, posts, topic_acc, exported, mainpc>>

InitHandlers ==
  /\ parser = NewParser
  /\ ev = NoEvent
  /\ inAside = FALSE
  /\ run = NoRun
  /\ preview = NoPreview("fresh")
  /\ fresh = NewParser

InitFeed ==
  /\ first = NewParser
  /\ second = NewParser
  /\ phase = "html"

InitContexts ==
  /\ header = NoHeader
  /\ marks = NoMarks

InitMigrationIdle ==
  /\ mig = NewMigrationParser
  /\ mev = NoEvent
  /\ mstep = <<>>
  /\ mdoc = <<>>

\* run_tasks has not been called
InitTasksIdle ==
  /\ file = "discourse_download.py"
  /\ mayRaise = FALSE
  /\ input = <<>>
  /\ tasks = <<>>
  /\ result = <<>>
  /\ batch = <<>>
  /\ pending = {}
  /\ pc = "idle"
  /\ runs = <<>>
  /\ slept = 0
  /\ started = FALSE

\* main has not been called
InitMainIdle ==
  /\ listing = <<>>
  /\ queue = <<>>
  /\ posts = <<>>
  /\ topic_acc = <<>>
  /\ exported = <<>>
  /\ mainpc = "idle"

Init ==
  /\ InitHandlers
  /\ blocks = NoBlocks
  /\ InitFeed
  /\ html = <<>>
  /\ InitContexts
  /\ InitMigrationIdle
  /\ InitTasksIdle
  /\ InitMainIdle

\* feed calls the handlers until one raises
Running == parser.exc = "none"

\* one handler call, for the event ev'
DeliveredParser ==
  /\ parser' = Handle(Fed(parser), ev')
  /\ inAside' = InAsideNext(inAside, ev')
  /\ run' = IF parser'.exc = "none" THEN RunNext(run, parser, inAside, ev') ELSE NoRun
  /\ preview' = PreviewNext(preview, ev', parser')
  /\ blocks' = BlocksNext(blocks, ev')
  /\ fresh' = IF blocks'.stage = "off" THEN NewParser
              ELSE IF blocks.stage = "between" THEN Handle(NewParser, ev')
              ELSE IF fresh.exc = "none" THEN Handle(Fed(fresh), ev')
              ELSE Fed(fresh)
  /\ UNCHANGED feedVars

Delivered ==
  /\ DeliveredParser
  /\ UNCHANGED <<contextVars, migrationVars, taskVars, mainVars>>

HandleStarttag ==
  /\ Running
  /\ \E in \in StartInputs : ev' = Event("start", in[1], in[2], <<>>)
  /\ Delivered

HandleStartendtag ==
  /\ Running
  /\ \E in \in StartendInputs : ev' = Event("startend", in[1], in[2], <<>>)
  /\ Delivered

HandleEndtag ==
  /\ Running
  /\ \E tag \in EndInputs : ev' = Event("end", tag, <<>>, <<>>)
  /\ Delivered

HandleData ==
  /\ Running
  /\ \E data \in DataInputs : ev' = Event("data", "", <<>>, data)
  /\ Delivered

HandleComment ==
  /\ Running
  /\ ev' = Event("comment", "", <<>>, <<"c">>)
  /\ Delivered

\* handle_decl and unknown_decl
HandleDecl ==
  /\ Running
  /\ \E decl \in {<<"DOCTYPE", " ", "html">>, <<"CDATA[", "x">>} : ev' = Event("decl", "", <<>>, decl)
  /\ Delivered

\* handle_charref and handle_entityref, with the name as HTMLParser passes it
HandleRef ==
  /\ Running
  /\ \E name \in {<<"amp">>, <<"65">>} : ev' = Event("ref", "", <<>>, name)
  /\ Delivered

HandlePi ==
  /\ Running
  /\ ev' = Event("pi", "", <<>>, <<"p">>)
  /\ Delivered

Next ==
  \/ HandleStarttag
  \/ HandleStartendtag
  \/ HandleEndtag
  \/ HandleData
  \/ HandleComment
  \/ HandleDecl
  \/ HandleRef
  \/ HandlePi

\* the handlers, called with any event in any order
Spec == Init /\ [][Next]_vars

(***************************************************************************)
(* Documents that are sequences of aside blocks                            *)
(***************************************************************************)
BlockStartInputs ==
  { <<"aside", << <<"class", <<"quote">>>> >> >>,
    <<"aside", << <<"class", <<"onebox">>>>, <<"data-onebox-src", OneboxSrc>> >> >>,
    <<"div", << <<"class", <<"title">>>> >> >>,
    <<"a", << <<"href", HrefOther>> >> >>,
    <<"a", << <<"href", HrefRelative>> >> >>,
    <<"blockquote", <<>>>> }

BlockEndInputs == {"aside", "div", "a", "blockquote"}

InitBlocks ==
  /\ InitHandlers
  /\ blocks = Blocks("between", 0, <<>>)
  /\ InitFeed
  /\ html = <<>>
  /\ InitContexts
  /\ InitMigrationIdle
  /\ InitTasksIdle
  /\ InitMainIdle

\* the document is a sequence of aside blocks so far
InBlocks == Running /\ blocks.stage # "off"

BlockStarttag ==
  /\ InBlocks
  /\ \E in \in BlockStartInputs : ev' = Event("start", in[1], in[2], <<>>)
  /\ Delivered

BlockEndtag ==
  /\ InBlocks
  /\ \E tag \in BlockEndInputs : ev' = Event("end", tag, <<>>, <<>>)
  /\ Delivered

BlockData ==
  /\ InBlocks
  /\ ev' = Event("data", "", <<>>, <<"click", " ", "here">>)
  /\ Delivered

NextBlocks ==
  \/ BlockStarttag
  \/ BlockEndtag
  \/ BlockData

SpecBlocks == InitBlocks /\ [][NextBlocks]_vars

(***************************************************************************)
(* A post fed to a fresh parser, and its output fed to a second one        *)
(***************************************************************************)
InitPosts ==
  /\ InitHandlers
  /\ blocks = NoBlocks
  /\ InitFeed
  /\ html \in Posts
  /\ InitContexts
  /\ InitMigrationIdle
  /\ InitTasksIdle
  /\ InitMainIdle

\* parser = DiscourseHTMLParser(); parser.feed(post.html)
FeedPost ==
  /\ phase = "html"
  /\ first' = Feed(html)
  /\ phase' = "first"
  /\ UNCHANGED <<html, second>>
  /\ UNCHANGED handlerVars
  /\ UNCHANGED <<contextVars, migrationVars, taskVars, mainVars>>

\* a second parser is fed the output of the first
FeedOutput ==
  /\ phase = "first"
  /\ first.exc = "none"
  /\ second' = Feed(first.output_html)
  /\ phase' = "second"
  /\ UNCHANGED <<html, first>>
  /\ UNCHANGED handlerVars
  /\ UNCHANGED <<contextVars, migrationVars, taskVars, mainVars>>

NextPosts ==
  \/ FeedPost
  \/ FeedOutput

SpecPosts == InitPosts /\ [][NextPosts]_vars

(***************************************************************************)
(* Documents of asides, quote headers and code blocks                      *)
(***************************************************************************)
\* one handler call, with the observers of the header and of the markers
Observed ==
  /\ DeliveredParser
  /\ header' = HeaderNext(header, parser, ev', parser')
  /\ marks' = MarksNext(marks, parser, ev', parser')
  /\ UNCHANGED <<migrationVars, taskVars, mainVars>>

\* the markers are counted up to MaxMarkers of each kind
Counting ==
  /\ Running
  /\ marks.fence_open < MaxMarkers /\ marks.fence_close < MaxMarkers
  /\ marks.preview_open < MaxMarkers /\ marks.preview_close < MaxMarkers

ContextStarttag ==
  /\ Counting
  /\ \E in \in ContextStartInputs : ev' = Event("start", in[1], in[2], <<>>)
  /\ Observed

ContextEndtag ==
  /\ Counting
  /\ \E tag \in ContextEndInputs : ev' = Event("end", tag, <<>>, <<>>)
  /\ Observed

ContextData ==
  /\ Counting
  /\ \E data \in {<<"@", "foo">>, <<"click", " ", "here">>} : ev' = Event("data", "", <<>>, data)
  /\ Observed

NextContexts ==
  \/ ContextStarttag
  \/ ContextEndtag
  \/ ContextData

SpecContexts == Init /\ [][NextContexts]_vars

(***************************************************************************)
(* The parser of discourse_migration.py, fed a document                    *)
(***************************************************************************)
\* one handler call on the migration parser, for the event mev'
MigrationDelivered ==
  /\ mig.exc = "none"
  /\ Len(mdoc) < MaxEvents
  /\ mig' = MigrationHandle(mig, mev')
  /\ mstep' = MigrationHandle([mig EXCEPT !.output_html = <<>>], mev').output_html
  /\ mdoc' = Append(mdoc, mev')
  /\ UNCHANGED <<handlerVars, feedVars, contextVars, taskVars, mainVars>>

MigrationStarttag ==
  /\ \E in \in MigrationStartInputs : mev' = Event("start", in[1], in[2], <<>>)
  /\ MigrationDelivered

MigrationStartendtag ==
  /\ \E in \in MigrationStartendInputs : mev' = Event("startend", in[1], in[2], <<>>)
  /\ MigrationDelivered

MigrationEndtag ==
  /\ \E tag \in MigrationEndInputs : mev' = Event("end", tag, <<>>, <<>>)
  /\ MigrationDelivered

MigrationData ==
  /\ \E data \in MigrationDataInputs : mev' = Event("data", "", <<>>, data)
  /\ MigrationDelivered

\* handle_comment, handle_decl, handle_charref and handle_pi
MigrationOther ==
  /\ \E type \in {"comment", "decl", "ref", "pi"} : mev' = Event(type, "", <<>>, <<"c">>)
  /\ MigrationDelivered

NextMigration ==
  \/ MigrationStarttag
  \/ MigrationStartendtag
  \/ MigrationEndtag
  \/ MigrationData
  \/ MigrationOther

SpecMigration == Init /\ [][NextMigration]_vars

(***************************************************************************)
(* run_tasks(tasks)                                                        *)
(***************************************************************************)
\* the call: any list of up to MaxTasks tasks, in either file
InitTasks ==
  /\ InitHandlers
  /\ blocks = NoBlocks
  /\ InitFeed
  /\ html = <<>>
  /\ InitContexts
  /\ InitMigrationIdle
  /\ InitMainIdle
  /\ file \in {"discourse_download.py", "discourse_migration.py"}
  /\ mayRaise \in BOOLEAN
  /\ \E n \in 0..MaxTasks : input = [i \in 1..n |-> i]
  /\ tasks = input
  /\ result = <<>>
  /\ batch = <<>>
  /\ pending = {}
  /\ pc = "loop"
  /\ runs = [i \in 1..Len(input) |-> 0]
  /\ slept = 0
  /\ started = FALSE

notTaskVars == <<handlerVars, feedVars, contextVars, migrationVars, mainVars>>

\* gather(*tasks[:4]) or gather(*tasks): the awaitables are started together
StartBatch ==
  /\ pc = "loop"
  /\ tasks # <<>>
  /\ batch' = Batch(tasks)
  /\ pending' = {Batch(tasks)[i] : i \in 1..Len(Batch(tasks))}
  /\ runs' = [i \in 1..Len(input) |->
                IF \E j \in 1..Len(Batch(tasks)) : Batch(tasks)[j] = i THEN runs[i] + 1 ELSE runs[i]]
  /\ pc' = "gather"
  /\ started' = TRUE
  /\ slept' = 0
  /\ UNCHANGED <<file, mayRaise, input, tasks, result>>
  /\ UNCHANGED notTaskVars

\* a running task completes (after a raise, the rest of its batch still runs)
Complete ==
  /\ pc \in {"gather", "raised"}
  /\ \E t \in pending : pending' = pending \ {t}
  /\ UNCHANGED <<file, mayRaise, input, tasks, result, batch, pc, runs, slept, started>>
  /\ UNCHANGED notTaskVars

\* a running task raises: gather raises at once and run_tasks with it
TaskRaises ==
  /\ mayRaise
  /\ pc = "gather"
  /\ \E t \in pending : pending' = pending \ {t}
  /\ pc' = "raised"
  /\ UNCHANGED <<file, mayRaise, input, tasks, result, batch, runs, slept, started>>
  /\ UNCHANGED notTaskVars

\* the await of gather returns the results in the order of its arguments
GatherReturns ==
  /\ pc = "gather"
  /\ pending = {}
  /\ result' = result \o batch
  /\ tasks' = Rest(tasks)
  /\ batch' = <<>>
  /\ pc' = IF Len(tasks) > BatchLimit THEN "sleep" ELSE "loop"
  /\ UNCHANGED <<file, mayRaise, input, pending, runs, slept, started>>
  /\ UNCHANGED notTaskVars

\* await sleep(2), await sleep(1/2)
Sleep ==
  /\ pc = "sleep"
  /\ slept' = SleepMs(file)
  /\ pc' = "loop"
  /\ UNCHANGED <<file, mayRaise, input, tasks, result, batch, pending, runs, started>>
  /\ UNCHANGED notTaskVars

\* return result
Return ==
  /\ pc = "loop"
  /\ tasks = <<>>
  /\ pc' = "done"
  /\ UNCHANGED <<file, mayRaise, input, tasks, result, batch, pending, runs, slept, started>>
  /\ UNCHANGED notTaskVars

NextTasks ==
  \/ StartBatch
  \/ Complete
  \/ TaskRaises
  \/ GatherReturns
  \/ Sleep
  \/ Return

SpecTasks == InitTasks /\ [][NextTasks]_vars

\* the event loop runs whatever can run
SpecTasksFair == InitTasks /\ [][NextTasks]_vars /\ WF_vars(NextTasks)

(***************************************************************************)
(* main of discourse_download.py                                           *)
(***************************************************************************)
\* the topics the pages list, in order: a page is fetched while the forum lives,
\* so a topic may be listed on two pages
Listings == UNION { [1..n -> TopicIds] : n \in 0..MaxTopics }

InitMain ==
  /\ InitHandlers
  /\ blocks = NoBlocks
  /\ InitFeed
  /\ html = <<>>
  /\ InitContexts
  /\ InitMigrationIdle
  /\ InitTasksIdle
  /\ listing \in Listings
  /\ queue = PostTasks(listing)
  /\ posts = <<>>
  /\ topic_acc = <<>>
  /\ exported = <<>>
  /\ mainpc = "fetch"

notMainVars == <<handlerVars, feedVars, contextVars, migrationVars, taskVars>>

\* posts = await run_tasks([...]): one batch of it
FetchPosts ==
  /\ mainpc = "fetch"
  /\ queue # <<>>
  /\ posts' = posts \o [i \in 1..Len(Batch(queue)) |-> DiscoursePost(Batch(queue)[i])]
  /\ queue' = Rest(queue)
  /\ UNCHANGED <<listing, topic_acc, exported, mainpc>>
  /\ UNCHANGED notMainVars

\* topic_acc = {...}; for post in posts: topic_acc[post.topic_id]["posts"].append(post)
GroupPosts ==
  /\ mainpc = "fetch"
  /\ queue = <<>>
  /\ topic_acc' = TopicAcc(listing, posts)
  /\ mainpc' = "export"
  /\ UNCHANGED <<listing, queue, posts, exported>>
  /\ UNCHANGED notMainVars

\* one round of the loop over topic_acc.items(): the welcome topic is skipped, a
\* parser that raises ends main, otherwise the file of the topic is written
ExportTopic ==
  /\ mainpc = "export"
  /\ topic_acc # <<>>
  /\ LET topic == Head(topic_acc)
     IN  IF Slug(topic.id) = "welcome-to-the-hail-community"
           THEN UNCHANGED <<exported, mainpc>>
         ELSE IF FeedRaises(topic.posts)
           THEN mainpc' = "raised" /\ UNCHANGED exported
         ELSE /\ exported' = Append(exported, [id |-> topic.id, slug |-> Slug(topic.id),
                                               html |-> TopicHtml(<<>>, topic.posts)])
              /\ UNCHANGED mainpc
  /\ topic_acc' = Tail(topic_acc)
  /\ UNCHANGED <<listing, queue, posts>>
  /\ UNCHANGED notMainVars

\* the loop over the topics ends
MainReturns ==
  /\ mainpc = "export"
  /\ topic_acc = <<>>
  /\ mainpc' = "done"
  /\ UNCHANGED <<listing, queue, posts, topic_acc, exported>>
  /\ UNCHANGED notMainVars

NextMain ==
  \/ FetchPosts
  \/ GroupPosts
  \/ ExportTopic
  \/ MainReturns

SpecMain == InitMain /\ [][NextMain]_vars

(***************************************************************************)
(* The two parsers, fed the same post                                      *)
(***************************************************************************)
\* tag, attrs of the start tags that bear on links: the anchors of every kind, a
\* quote aside and a link-preview aside of the migration script (to the download
\* script an aside as the other) and the tags that open and close a quote header
LinkStartInputs ==
  { <<"a", << <<"class", <<"mention">>>>, <<"href", HrefUser>> >> >>,
    <<"a", << <<"href", HrefRelative>> >> >>,
    <<"a", << <<"href", HrefTopic>> >> >>,
    <<"a", << <<"href", HrefEmbedded>> >> >>,
    <<"a", << <<"href", HrefOther>> >> >>,
    <<"a", << <<"class", None>>, <<"href", HrefTopic>> >> >>,
    <<"aside", << <<"class", <<"quote">>>> >> >>,
    <<"aside", << <<"class", <<"onebox">>>>, <<"data_onebox_source", OneboxSrc>> >> >>,
    <<"div", << <<"class", <<"title">>>> >> >>,
    <<"blockquote", <<>>>> }

LinkStartendInputs ==
  { <<"a", << <<"href", HrefTopic>> >> >>, <<"br", <<>>>> }

LinkEndInputs == {"a", "aside"}

LinkDataInputs == { <<"See", " ", "thread">> }

\* both scripts read the posts of the forum: the handler call for the event ev' is
\* made on the parser of discourse_download.py and on that of discourse_migration.py,
\* on each as long as it has not raised; each keeps what the call appended
LinkDelivered ==
  /\ parser.exc = "none" \/ mig.exc = "none"
  /\ parser' = IF parser.exc = "none" THEN Handle(Fed(parser), ev') ELSE parser
  /\ mev' = ev'
  /\ mig' = IF mig.exc = "none" THEN MigrationHandle(Fed(mig), mev') ELSE mig
  /\ mstep' = IF mig.exc = "none" THEN mig'.output_html ELSE <<>>
  /\ UNCHANGED <<inAside, run, preview, blocks, fresh, mdoc>>
  /\ UNCHANGED <<feedVars, contextVars, taskVars, mainVars>>

LinkStarttag ==
  /\ \E in \in LinkStartInputs : ev' = Event("start", in[1], in[2], <<>>)
  /\ LinkDelivered

LinkStartendtag ==
  /\ \E in \in LinkStartendInputs : ev' = Event("startend", in[1], in[2], <<>>)
  /\ LinkDelivered

LinkEndtag ==
  /\ \E tag \in LinkEndInputs : ev' = Event("end", tag, <<>>, <<>>)
  /\ LinkDelivered

LinkData ==
  /\ \E data \in LinkDataInputs : ev' = Event("data", "", <<>>, data)
  /\ LinkDelivered

NextLinks ==
  \/ LinkStarttag
  \/ LinkStartendtag
  \/ LinkEndtag
  \/ LinkData

SpecLinks == Init /\ [][NextLinks]_vars

(***************************************************************************)
(* The claims                                                              *)
(***************************************************************************)
\* <a href="f4706281-cc60-4ff0-a0b6-b803683cc24b/slug">
Placeholder(slug) == STag("a", << <<"href", POST_LINK_ID \o <<"/">> \o slug>> >>, <<>>)

\* the path segment of link that follows the first occurrence of the topic prefix,
\* up to the next "/"
SegmentAfterPrefix(link) ==
  LET at == CHOOSE i \in 1..Len(link) :
              /\ StartsWith(SubSeq(link, i, Len(link)), TopicPrefix)
              /\ \A j \in 1..(i - 1) : ~StartsWith(SubSeq(link, j, Len(link)), TopicPrefix)
  IN  SplitHead(SubSeq(link, at + Len(TopicPrefix), Len(link)), "/")

\* C1: an `a` start tag with href = prefix + s + "/..." processed with aside,
\* mention and relative_link false appends exactly the placeholder anchor of s and
\* adds s to post_links; the text events up to the matching end tag are appended
\* verbatim; the matching end tag appends </a>.
C1_CrossTopicAnchor ==
  run.kind = "cross" =>
    /\ run.stage = "start" =>
         /\ parser.output_html = <<Placeholder(SegmentAfterPrefix(AttrGet(ev.attrs, "href", <<>>)))>>
         /\ SegmentAfterPrefix(AttrGet(ev.attrs, "href", <<>>)) \in parser.post_links
    /\ run.stage = "text" => parser.output_html = <<Text(ev.data)>>
    /\ run.stage = "end" => parser.output_html = <<ETag("a")>>

\* an `a` start or self-closing tag that reaches the cross-topic rule in state p
ReachesCrossTopicRule(p, e) ==
  /\ IsTag(e, {"start", "startend"}, "a")
  /\ ~p.aside \/ p.aside_header
  /\ AttrGet(e.attrs, "class", <<>>) # None
  /\ ~Contains(AttrGet(e.attrs, "class", <<>>), <<"mention">>)
  /\ AttrGet(e.attrs, "href", <<>>) # None
  /\ ~StartsWith(AttrGet(e.attrs, "href", <<>>), <<"/">>)
  /\ Contains(AttrGet(e.attrs, "href", <<>>), TopicPrefix)

\* C2: for every `a` start tag that reaches the cross-topic rule, the slug added to
\* post_links and written into the placeholder href is the path segment of href
\* that follows the topic prefix, up to the next "/".
C2_SlugFollowsPrefix ==
  [][ReachesCrossTopicRule(parser, ev') =>
       /\ parser'.output_html = <<Placeholder(SegmentAfterPrefix(AttrGet(ev'.attrs, "href", <<>>)))>>
       /\ parser'.post_links =
            parser.post_links \cup {SegmentAfterPrefix(AttrGet(ev'.attrs, "href", <<>>))}]_vars

\* C5: a mention anchor opened outside any aside appends nothing for its start
\* tag, each text event up to the matching end tag appends only what follows its
\* first "@", and the end tag appends nothing and leaves mention false.
C5_MentionAnchor ==
  run.kind = "mention" =>
    /\ run.stage = "start" => parser.output_html = <<>>
    /\ run.stage = "text" => parser.output_html = Cat(<<>>, <<Text(PartitionTail(ev.data, "@"))>>)
    /\ run.stage = "end" => parser.output_html = <<>> /\ ~parser.mention

\* C5's case: the text @foo of a mention anchor has been delivered and gave foo
C5_Witness ==
  /\ run = Run("mention", "text")
  /\ ev.data = <<"@", "foo">>
  /\ parser.output_html = <<Text(<<"foo">>)>>

\* C6: a relative-link anchor (no mention class, href starting with "/") opened
\* outside any aside with mention false appends nothing for its start tag, its
\* inner text events are appended verbatim, and the matching end tag appends
\* nothing and leaves relative_link false.
C6_RelativeAnchor ==
  run.kind = "relative" =>
    /\ run.stage = "start" => parser.output_html = <<>>
    /\ run.stage = "text" => parser.output_html = <<Text(ev.data)>>
    /\ run.stage = "end" => parser.output_html = <<>> /\ ~parser.relative_link

\* C6's case: the text "click here" of a relative-link anchor was delivered and
\* appended as it is
C6_Witness ==
  /\ run = Run("relative", "text")
  /\ parser.output_html = <<Text(<<"click", " ", "here">>)>>
  /\ parser.relative_link

\* C7: StartTag(pre), StartTag(code), Text(T), EndTag(code), EndTag(pre) processed
\* with aside and mention false appends the fence-open marker, T verbatim and the
\* fence-close marker and nothing else, and leaves code_block_pre and
\* code_block_code false.
C7_CodeFence ==
  run.kind = "fence" =>
    /\ run.stage = "pre" => parser.output_html = <<>>
    /\ run.stage = "code" => parser.output_html = <<Text(FenceOpen)>>
    /\ run.stage = "text" => parser.output_html = <<Text(ev.data)>>
    /\ run.stage = "endcode" => parser.output_html = <<Text(FenceClose)>>
    /\ run.stage = "endpre" =>
         parser.output_html = <<>> /\ ~parser.code_block_pre /\ ~parser.code_block_code

\* C9: no handler call raises, whatever the event and the state.
C9_NeverRaises == parser.exc = "none"

\* the lexeme a comment, declaration, reference or processing instruction is
VerbatimLexeme(e) ==
  CASE e.type = "comment" -> Comment(e.data)
    [] e.type = "decl" -> Decl(e.data)
    [] e.type = "ref" -> Ref(e.data)
    [] e.type = "pi" -> Pi(e.data)

\* C10: in every state, the handlers of comments, declarations, processing
\* instructions and character/entity references append the event verbatim and
\* leave every context flag and post_links unchanged.
C10_VerbatimEvents ==
  [][ev'.type \in {"comment", "decl", "ref", "pi"} =>
       /\ parser'.output_html = <<VerbatimLexeme(ev')>>
       /\ Flags(parser') = Flags(parser)
       /\ parser'.post_links = parser.post_links]_vars

\* C10's case: a comment delivered inside a link-preview aside was written
C10_Witness ==
  /\ ev.type = "comment"
  /\ parser.aside /\ parser.aside_src # None
  /\ parser.output_html = <<Comment(ev.data)>>

\* C3: in a document of two sequential aside blocks A then B, what the parser
\* appends while processing B is what a fresh parser fed B alone appends.
C3_SecondAsideAsFresh ==
  (blocks.stage = "in" /\ blocks.done = 1) \/ (blocks.stage = "between" /\ blocks.done = 2)
    => parser.output_html = fresh.output_html /\ parser.exc = fresh.exc

\* \n<a href="U">U</a>\n
PreviewOutput(src) ==
  <<Text(<<"\n">>), STag("a", << <<"href", src>> >>, <<>>), Text(src), ETag("a"), Text(<<"\n">>)>>

\* C4: a document of one aside with data-onebox-src=U, holding nested tags other
\* than aside and at least one text event, gives a fresh parser exactly the output
\* \n<a href="U">U</a>\n: nested tags append nothing, the first text event appends
\* U, later text events nothing, and the aside end tag appends </a>\n and resets
\* aside_src and aside_src_written.
C4_PreviewAside ==
  /\ preview.stage = "open" /\ ev.type \in {"start", "startend", "end"} /\ ev.tag # "aside"
       => parser.output_html = <<>>
  /\ preview.stage = "open" /\ ev.type = "data"
       => parser.output_html = (IF preview.texts = "one" THEN <<Text(preview.src)>> ELSE <<>>)
  /\ preview.stage = "closed"
       => /\ parser.output_html = <<ETag("a"), Text(<<"\n">>)>>
          /\ parser.aside_src = None /\ ~parser.aside_src_written
  /\ preview.stage = "closed" /\ preview.texts # "none"
       => preview.out = PreviewOutput(preview.src)

\* C4's case: the aside was closed after nested tags and more than one text event
C4_Witness ==
  /\ preview.stage = "closed" /\ preview.texts = "many" /\ preview.tags
  /\ preview.out = PreviewOutput(OneboxSrc)

\* an anchor of the forum: a mention class, an href that starts with "/" or an
\* href that holds the topic prefix
ForumAnchor(x) ==
  /\ x.k = "start" /\ x.tag = "a"
  /\ \/ Contains(AttrGet(x.attrs, "class", <<>>), <<"mention">>)
     \/ StartsWith(AttrGet(x.attrs, "href", <<>>), <<"/">>)
     \/ Contains(AttrGet(x.attrs, "href", <<>>), TopicPrefix)

\* C8: if the output O of a fresh parser on a document holds no forum anchor, a
\* second fresh parser fed O gives output O and an empty post_links.
C8_Idempotent ==
  phase = "second" /\ (\A i \in 1..Len(first.output_html) : ~ForumAnchor(first.output_html[i]))
    => second.output_html = first.output_html /\ second.post_links = {} /\ second.exc = "none"

\* C12: in discourse_migration.py, <a href="https://discuss.hail.is/t/my-topic/45">
\* See thread</a> fed to a fresh parser gives exactly the placeholder anchor of
\* my-topic, the text and </a>, with my-topic in post_links: the end tag matching a
\* cross-topic anchor's start tag is written as </a>.
C12_MigrationCrossTopic ==
  mdoc = <<Event("start", "a", << <<"href", HrefTopic>> >>, <<>>),
           Event("data", "", <<>>, <<"See", " ", "thread">>),
           Event("end", "a", <<>>, <<>>)>>
    => /\ mig.output_html =
            <<Placeholder(<<"my-topic">>), Text(<<"See", " ", "thread">>), ETag("a")>>
       /\ <<"my-topic">> \in mig.post_links

\* the text events delivered since the start tag of the link preview that is open
TextsInPreview(doc) ==
  LET opens == {i \in 1..Len(doc) :
                  /\ IsTag(doc[i], {"start", "startend"}, "aside")
                  /\ AttrHas(doc[i].attrs, "data_onebox_source")}
      last == CHOOSE i \in opens : \A j \in opens : j <= i
  IN  Cardinality({j \in (last + 1)..Len(doc) : doc[j].type = "data"})

\* C13: in discourse_migration.py, while link_preview is true the first text event
\* after the aside start tag is replaced by the source URL and every later text
\* event appends nothing: the URL is written exactly once.
C13_MigrationUrlOnce ==
  mig.link_preview /\ mev.type = "data"
    => mstep = (IF TextsInPreview(mdoc) = 1
                  THEN <<Text(FmtValue(mig.link_preview_url))>> ELSE <<>>)

\* C14: in the header of a quote aside exactly one anchor contributes text: for
\* every kind of first header anchor, once its end tag has been handled,
\* aside_header_link is false and every later text event inside the header appends
\* nothing.
C14_OneHeaderAnchor ==
  header.stage = "after"
    => /\ ~parser.aside_header_link
       /\ ev.type = "data" => parser.output_html = <<>>

\* C16: a fence-close marker is appended only by a code end tag handled with
\* code_block_code true, which leaves code_block_pre true and code_block_code
\* false; so the output never holds more fence-close than fence-open markers.
C16_FenceCloseInCode ==
  /\ marks.in_code
  /\ marks.fence_close <= marks.fence_open

\* C17: the preview anchor markers written by aside tags alternate: at every point
\* #closes <= #opens <= #closes + 1.
C17_PreviewMarkersAlternate ==
  /\ marks.preview_close <= marks.preview_open
  /\ marks.preview_open <= marks.preview_close + 1

\* C15 as stated: in every reachable state, also inside a quote aside outside its
\* header and inside a link-preview aside, an `a` start tag whose class contains
\* "mention" sets mention, one whose href starts with "/" sets relative_link and
\* one whose href contains the topic prefix adds its slug to post_links.
C15_AnchorRulesFirst ==
  [][IsTag(ev', {"start"}, "a") /\ parser'.exc = "none" =>
       LET class == AttrGet(ev'.attrs, "class", <<>>)
           link == AttrGet(ev'.attrs, "href", <<>>)
       IN  IF Contains(class, <<"mention">>) THEN parser'.mention
           ELSE IF StartsWith(link, <<"/">>) THEN parser'.relative_link
           ELSE IF Contains(link, TopicPrefix) THEN LinkSlug(link) \in parser'.post_links
           ELSE TRUE]_vars

\* C15 amended: the anchor rules apply where aside is false or aside_header is
\* true, in the order mention, relative link, cross-topic link, each changing only
\* its own flag or post_links; a class or href without a value raises there. Where
\* aside is true and aside_header is false an `a` start tag writes nothing and
\* changes none of mention, relative_link and post_links.
C15_AnchorRulesOutsideAsides ==
  [][IsTag(ev', {"start", "startend"}, "a") =>
       LET class == AttrGet(ev'.attrs, "class", <<>>)
           link == AttrGet(ev'.attrs, "href", <<>>)
           same(fields) == \A f \in fields : parser'[f] = parser[f]
       IN  IF parser.aside /\ ~parser.aside_header
             THEN /\ same({"mention", "relative_link", "post_links", "exc"})
                  /\ parser'.output_html = <<>>
           ELSE IF class = None THEN parser'.exc = "TypeError"
           ELSE IF Contains(class, <<"mention">>)
             THEN parser'.mention /\ same({"relative_link", "post_links", "exc"})
           ELSE IF link = None THEN parser'.exc = "AttributeError"
           ELSE IF StartsWith(link, <<"/">>)
             THEN parser'.relative_link /\ same({"mention", "post_links", "exc"})
           ELSE IF Contains(link, TopicPrefix)
             THEN /\ parser'.post_links = parser.post_links \cup {LinkSlug(link)}
                  /\ same({"mention", "relative_link", "exc"})
           ELSE same({"mention", "relative_link", "post_links", "exc"})]_vars

\* C15's case: a mention anchor's start tag was delivered inside a link-preview
\* aside and did not set mention
C15_Witness ==
  /\ IsTag(ev, {"start"}, "a")
  /\ Contains(AttrGet(ev.attrs, "class", <<>>), <<"mention">>)
  /\ parser.aside /\ parser.aside_src # None /\ ~parser.aside_header
  /\ ~parser.mention

\* C18: mention and relative_link are mutually exclusive: in every reachable
\* state at most one of them is true.
C18_MentionRelativeExclusive == ~(parser.mention /\ parser.relative_link)

\* C19: run_tasks never has more than 5 tasks in flight, starts a batch only when
\* every task of the batch before it has completed, and sleeps between the
\* completion of a batch and the start of the next one.
C19_BoundedBatches ==
  [][/\ Cardinality(pending') <= 5
     /\ pc = "loop" /\ pc' = "gather" =>
          /\ pending = {}
          /\ started => slept = SleepMs(file)]_vars

\* C19's case: a second batch is running, after a first batch and a sleep
C19_Witness ==
  /\ pc = "gather"
  /\ Len(result) = BatchSize
  /\ pending # {}

\* the results of the tasks of the input list, in its order, each task run once
AllRunOnceInOrder ==
  /\ result = input
  /\ \A i \in 1..Len(input) : runs[i] = 1

\* C20: for every finite list of tasks that each complete, run_tasks terminates,
\* having run every task exactly once, and returns the results in the order of
\* the input list.
C20_TerminatesInOrder == <>(mayRaise \/ (pc = "done" /\ AllRunOnceInOrder))

\* C20's case: a list of 6 tasks, split into a batch of 4 and a batch of 2, has
\* been run to the end
C20_Witness ==
  /\ ~mayRaise
  /\ pc = "done"
  /\ Len(input) = 6 /\ result = input

\* the posts of a topic's post_stream, in its order
StreamPosts(t) == [k \in 1..Len(PostStream(t)) |-> DiscoursePost(PostStream(t)[k])]

\* C11: for every exported topic the html is the concatenation, in the order of
\* the topic's post_stream, of the blocks <h2>{username} said:</h2>\n{output}\n\n,
\* each output that of a fresh parser fed the post's html, however run_tasks
\* splits the post fetches into batches.
C11_PostOrder ==
  \A i \in 1..Len(exported) :
    exported[i].html = TopicHtml(<<>>, StreamPosts(exported[i].id))

\* the slugs of the placeholder anchors among the lexemes out
PlaceholderSlugs(out) ==
  { RemovePrefix(out[i].attrs[1][2], POST_LINK_ID \o <<"/">>) :
      i \in { j \in 1..Len(out) :
                /\ out[j].k = "start" /\ out[j].tag = "a" /\ out[j].s = <<>>
                /\ Len(out[j].attrs) = 1 /\ out[j].attrs[1][1] = "href"
                /\ StartsWith(out[j].attrs[1][2], POST_LINK_ID \o <<"/">>) } }

\* C21: in both parsers every handler call adds to post_links exactly the slugs
\* of the placeholder anchors it appends to the output and removes none, so
\* post_links is at all times the set of the slugs whose placeholder was
\* written: none registered without its placeholder, none written without being
\* registered, and post_links never shrinks. (No anchor of the input carries the
\* placeholder id, so a placeholder in the output is one the cross-topic rule wrote.)
C21_PostLinksArePlaceholders ==
  [][/\ parser'.post_links = parser.post_links \cup PlaceholderSlugs(parser'.output_html)
     /\ mig'.post_links = mig.post_links \cup PlaceholderSlugs(mstep')]_vars

\* both parsers have registered both slugs and the download parser has just
\* written a placeholder
C21_Witness ==
  /\ Cardinality(parser.post_links) = 2
  /\ Cardinality(mig.post_links) = 2
  /\ PlaceholderSlugs(parser.output_html) # {}
  /\ PlaceholderSlugs(mstep) # {}

\* C22: in discourse_download.py the output holds no `a` start tag whose href
\* contains the forum topic prefix: pass-through anchors, placeholder anchors and
\* the anchors written for link-preview asides all point elsewhere.
C22_NoForumAnchor ==
  \A i \in 1..Len(parser.output_html) :
    LET x == parser.output_html[i]
    IN  x.k = "start" /\ x.tag = "a" =>
          \A j \in 1..Len(x.attrs) :
            x.attrs[j][1] = "href" => ~Contains(x.attrs[j][2], TopicPrefix)

====
